---- MODULE Spec2Model ----
(***************************************************************************)
(* CertificateManager of protonvpn-nm-lib                                  *)
(* (src/protonvpn/services/certificate_manager.py).                        *)
(*                                                                         *)
(* State: the ConnectionState written by save_servername/save_protocol,    *)
(* the cache directory and the files at the cache paths, and a record of   *)
(* the most recent call (its arguments, what it returned or raised, what   *)
(* it sent to capture_exception).                                          *)
(*                                                                         *)
(* Python values are records [type, value]; isinstance reads the type.     *)
(* The template engine and the filesystem can fail: each call carries a    *)
(* `fault`, the one step of generate_openvpn_cert that fails in that call  *)
(* and the exception it raises there ("none": every step succeeds).        *)
(***************************************************************************)
EXTENDS Integers, Sequences, FiniteSets, TLC

VARIABLES
    conn,       \* ConnectionState: [lastServerName, lastProtocol]
    dirExists,  \* os.path.isdir(PROTON_XDG_CACHE_HOME)
    files,      \* path -> [exists, text]
    last        \* the most recent call and its outcome

vars == <<conn, dirExists, files, last>>

----------------------------------------------------------------------------
(* Bounds and value universes                                              *)

MaxServers == 2

PyStr(v)   == [type |-> "str",      value |-> v]
PyBytes(v) == [type |-> "bytes",    value |-> v]
PyNone     == [type |-> "NoneType", value |-> "None"]
PyTrue     == [type |-> "bool",     value |-> "True"]
PyList(s)  == [type |-> "list",     value |-> s]
PyTuple(s) == [type |-> "tuple",    value |-> s]
NoList     == [type |-> "NoneType", value |-> <<>>]

\* ..enums.ProtocolEnum and ..enums.ProtocolPortEnum
ProtocolEnum == [TCP |-> "tcp", UDP |-> "udp", IKEV2 |-> "ikev2", WIREGUARD |-> "wireguard"]
ProtocolPortEnum == [TCP |-> "ProtocolPortEnum.TCP", UDP |-> "ProtocolPortEnum.UDP"]

\* ..constants
PROTON_XDG_CACHE_HOME == "~/.cache/protonvpn"
CACHED_OPENVPN_CERTIFICATE == "~/.cache/protonvpn/ProtonVPN.ovpn"
OtherCertPath == "/tmp/cert.ovpn"
Paths == {CACHED_OPENVPN_CERTIFICATE, OtherCertPath}
InCacheHome(p) == p = CACHED_OPENVPN_CERTIFICATE

IPs == {"1.2.3.4", "5.6.7.8"}
IpSeqs == {<<>>, <<"1.2.3.4">>} \cup {s \in IPs \X IPs : s[1] # s[2]}

ProtocolArgs ==
    {PyStr(ProtocolEnum.TCP), PyStr(ProtocolEnum.UDP), PyStr(ProtocolEnum.IKEV2),
     PyStr(ProtocolEnum.WIREGUARD), PyStr("sstp"), PyBytes("tcp")}
SessionArgs == {[type |-> "Session", value |-> "session"], PyNone}
ServerNames == {"PT#" \o ToString(i) : i \in 1..MaxServers}
ServernameArgs == {PyStr(n) : n \in ServerNames} \cup {PyBytes("PT#1")}
IpListArgs == {PyList(s) : s \in IpSeqs} \cup {PyTuple(<<>>), PyTuple(<<"1.2.3.4">>)}
CachedCertArgs == {PyStr(p) : p \in Paths}

AllArgs ==
    [protocol : ProtocolArgs, session : SessionArgs, servername : ServernameArgs,
     ip_list : IpListArgs, cached_cert : CachedCertArgs]

----------------------------------------------------------------------------
(* Files and rendered text                                                 *)

EmptyText ==
    [kind |-> "empty", openvpn_protocol |-> "", serverlist |-> <<>>, openvpn_ports |-> <<>>]
PartialText ==
    [kind |-> "partial", openvpn_protocol |-> "", serverlist |-> <<>>, openvpn_ports |-> <<>>]
Absent == [exists |-> FALSE, text |-> EmptyText]
FileWith(t) == [exists |-> TRUE, text |-> t]

\* template.render(j2_values): the text of the OpenVPN template filled with
\* the three variables; different variables give different text.
Render(j2_values) ==
    [kind |-> "rendered",
     openvpn_protocol |-> j2_values.openvpn_protocol.value,
     serverlist |-> j2_values.serverlist.value,
     openvpn_ports |-> j2_values.openvpn_ports]

----------------------------------------------------------------------------
(* Exceptions: the classes each raised exception is an instance of         *)

Bases(exc) ==
    CASE exc = "KeyError" -> {"KeyError", "LookupError", "Exception"}
      [] exc = "TemplateNotFound" ->
            {"TemplateNotFound", "OSError", "LookupError", "TemplateError", "Exception"}
      [] exc = "TemplateSyntaxError" -> {"TemplateSyntaxError", "TemplateError", "Exception"}
      [] exc = "UndefinedError" -> {"UndefinedError", "TemplateError", "Exception"}
      [] exc = "OSError" -> {"OSError", "Exception"}
      [] OTHER -> {exc, "Exception"}

\* The one step of generate_openvpn_cert that fails in a call.
NoFault == [step |-> "none", exc |-> ""]
Faults ==
    {NoFault,
     [step |-> "get_template", exc |-> "TemplateNotFound"],
     [step |-> "get_template", exc |-> "TemplateSyntaxError"],
     [step |-> "mkdir", exc |-> "OSError"],
     [step |-> "open", exc |-> "OSError"],
     [step |-> "render", exc |-> "UndefinedError"],
     [step |-> "write", exc |-> "OSError"]}

----------------------------------------------------------------------------
(* generate_vpn_cert: validation                                           *)

isinstance(obj, cls) == obj.type = cls

NoError == [exc |-> "", check |-> 0]

Validate_LenBeforeListType(protocol, session, servername, ip_list) ==
    IF ~isinstance(protocol, "str") THEN [exc |-> "TypeError", check |-> 1]
    ELSE IF ~isinstance(session, "Session") THEN [exc |-> "TypeError", check |-> 2]
    ELSE IF ~isinstance(servername, "str") THEN [exc |-> "TypeError", check |-> 3]
    ELSE IF Len(ip_list.value) = 0 THEN [exc |-> "ValueError", check |-> 5]
    ELSE IF ~isinstance(ip_list, "list") THEN [exc |-> "TypeError", check |-> 4]
    ELSE NoError

Validate(protocol, session, servername, ip_list) ==
    IF ~isinstance(protocol, "str") THEN [exc |-> "TypeError", check |-> 1]
    ELSE IF ~isinstance(session, "Session") THEN [exc |-> "TypeError", check |-> 2]
    ELSE IF ~isinstance(servername, "str") THEN [exc |-> "TypeError", check |-> 3]
    ELSE IF ~isinstance(ip_list, "list") THEN [exc |-> "TypeError", check |-> 4]
    ELSE IF Len(ip_list.value) = 0 THEN [exc |-> "ValueError", check |-> 5]
    ELSE NoError

----------------------------------------------------------------------------
(* ConnectionStateManager                                                  *)

save_servername(c, servername) == [c EXCEPT !.lastServerName = servername]
save_protocol(c, protocol) == [c EXCEPT !.lastProtocol = protocol]

RecordAttempt_NoProtocol(c, servername, protocol) == save_servername(c, servername)

RecordAttempt(c, servername, protocol) ==
    save_protocol(save_servername(c, servername), protocol)

----------------------------------------------------------------------------
(* The generators.  Each returns [generator, ret, exc, dirExists, files]:  *)
(* what it returned or raised and the filesystem it leaves.                *)

Returned(g, v, d, f) == [generator |-> g, ret |-> v, exc |-> "", dirExists |-> d, files |-> f]
Raised(g, e, d, f) == [generator |-> g, ret |-> PyNone, exc |-> e, dirExists |-> d, files |-> f]

ports_Swapped ==
    (ProtocolEnum.TCP :> ProtocolPortEnum.UDP) @@ (ProtocolEnum.UDP :> ProtocolPortEnum.TCP)

ports ==
    (ProtocolEnum.TCP :> ProtocolPortEnum.TCP) @@ (ProtocolEnum.UDP :> ProtocolPortEnum.UDP)

\* As generate_openvpn_cert, with a failure of os.mkdir ignored.
generate_openvpn_cert_MkdirIgnored(servername, ip_list, cached_cert, protocol, fault, d, f) ==
    LET g == "generate_openvpn_cert"
        path == cached_cert.value
    IN
    IF protocol.value \notin DOMAIN ports THEN Raised(g, "KeyError", d, f)
    ELSE
    LET j2_values == [openvpn_protocol |-> protocol,
                      serverlist |-> ip_list,
                      openvpn_ports |-> <<ports[protocol.value]>>]
        d2 == IF fault.step = "mkdir" THEN d ELSE TRUE
        opened == [f EXCEPT ![path] = FileWith(EmptyText)]
    IN
    IF fault.step = "get_template" THEN Raised(g, fault.exc, d, f)
    ELSE IF fault.step = "open" \/ (~d2 /\ InCacheHome(path)) THEN Raised(g, "OSError", d2, f)
    ELSE IF fault.step = "render" THEN Raised(g, fault.exc, d2, opened)
    ELSE IF fault.step = "write"
         THEN Raised(g, fault.exc, d2, [f EXCEPT ![path] = FileWith(PartialText)])
    ELSE Returned(g, cached_cert, d2, [f EXCEPT ![path] = FileWith(Render(j2_values))])

generate_openvpn_cert(servername, ip_list, cached_cert, protocol, fault, d, f) ==
    LET g == "generate_openvpn_cert"
        path == cached_cert.value
    IN
    IF protocol.value \notin DOMAIN ports THEN Raised(g, "KeyError", d, f)
    ELSE
    LET j2_values == [openvpn_protocol |-> protocol,
                      serverlist |-> ip_list,
                      openvpn_ports |-> <<ports[protocol.value]>>]
        \* os.mkdir(PROTON_XDG_CACHE_HOME) when it is not a directory
        d2 == TRUE
        \* open(cached_cert, "w") truncates
        opened == [f EXCEPT ![path] = FileWith(EmptyText)]
    IN
    IF fault.step = "get_template" THEN Raised(g, fault.exc, d, f)
    ELSE IF ~d /\ fault.step = "mkdir" THEN Raised(g, fault.exc, d, f)
    ELSE IF fault.step = "open" THEN Raised(g, fault.exc, d2, f)
    ELSE IF fault.step = "render" THEN Raised(g, fault.exc, d2, opened)
    ELSE IF fault.step = "write"
         THEN Raised(g, fault.exc, d2, [f EXCEPT ![path] = FileWith(PartialText)])
    ELSE Returned(g, cached_cert, d2, [f EXCEPT ![path] = FileWith(Render(j2_values))])

generate_strongswan_cert(servername, ip_list, cached_cert, protocol, d, f) ==
    Returned("generate_strongswan_cert", PyTrue, d, f)

generate_wireguard_cert(servername, ip_list, cached_cert, protocol, d, f) ==
    Returned("generate_wireguard_cert", PyTrue, d, f)

----------------------------------------------------------------------------
(* generate_vpn_cert: dispatch and the except clauses                      *)

protocol_dict_IkevAsOpenvpn ==
    (ProtocolEnum.TCP :> "generate_openvpn_cert")
    @@ (ProtocolEnum.UDP :> "generate_openvpn_cert")
    @@ (ProtocolEnum.IKEV2 :> "generate_openvpn_cert")
    @@ (ProtocolEnum.WIREGUARD :> "generate_wireguard_cert")

protocol_dict ==
    (ProtocolEnum.TCP :> "generate_openvpn_cert")
    @@ (ProtocolEnum.UDP :> "generate_openvpn_cert")
    @@ (ProtocolEnum.IKEV2 :> "generate_strongswan_cert")
    @@ (ProtocolEnum.WIREGUARD :> "generate_wireguard_cert")

\* protocol_dict[protocol](servername, ip_list, cached_cert, protocol)
Dispatch(servername, ip_list, cached_cert, protocol, fault, d, f) ==
    IF protocol.value \notin DOMAIN protocol_dict THEN Raised("none", "KeyError", d, f)
    ELSE LET target == protocol_dict[protocol.value] IN
         CASE target = "generate_openvpn_cert" ->
                generate_openvpn_cert(servername, ip_list, cached_cert, protocol, fault, d, f)
           [] target = "generate_strongswan_cert" ->
                generate_strongswan_cert(servername, ip_list, cached_cert, protocol, d, f)
           [] target = "generate_wireguard_cert" ->
                generate_wireguard_cert(servername, ip_list, cached_cert, protocol, d, f)

\* The except clauses in source order: the class caught and what the clause does.
ExceptClauses_LookupError ==
    << [catches |-> "LookupError", does |-> "raise IllegalVPNProtocol"],
       [catches |-> "TemplateNotFound", does |-> "raise TemplateNotFound"],
       [catches |-> "Exception", does |-> "capture_exception"] >>

ExceptClauses_NoKeyError ==
    << [catches |-> "TemplateNotFound", does |-> "raise TemplateNotFound"],
       [catches |-> "Exception", does |-> "capture_exception"] >>

ExceptClauses_Reraise ==
    << [catches |-> "KeyError", does |-> "raise IllegalVPNProtocol"],
       [catches |-> "TemplateNotFound", does |-> "raise TemplateNotFound"],
       [catches |-> "Exception", does |-> "raise"] >>

ExceptClauses ==
    << [catches |-> "KeyError", does |-> "raise IllegalVPNProtocol"],
       [catches |-> "TemplateNotFound", does |-> "raise TemplateNotFound"],
       [catches |-> "Exception", does |-> "capture_exception"] >>

\* What the try statement makes of the generator's outcome g:
\* [ret, exc, cause, reported] as the caller of generate_vpn_cert sees it.
TryExcept(g) ==
    IF g.exc = "" THEN [ret |-> g.ret, exc |-> "", cause |-> "", reported |-> <<>>]
    ELSE
    LET matching == {i \in 1..Len(ExceptClauses) : ExceptClauses[i].catches \in Bases(g.exc)}
    IN
    IF matching = {}
    THEN [ret |-> PyNone, exc |-> g.exc, cause |-> "", reported |-> <<>>]
    ELSE
    LET first == CHOOSE i \in matching : \A j \in matching : i <= j
        does == ExceptClauses[first].does
    IN
    CASE does = "raise IllegalVPNProtocol" ->
            [ret |-> PyNone, exc |-> "IllegalVPNProtocol", cause |-> g.exc, reported |-> <<>>]
      [] does = "raise TemplateNotFound" ->
            [ret |-> PyNone, exc |-> "TemplateNotFound", cause |-> g.exc, reported |-> <<>>]
      [] does = "capture_exception" ->
            [ret |-> PyNone, exc |-> "", cause |-> g.exc, reported |-> <<g.exc>>]
      [] OTHER ->
            [ret |-> PyNone, exc |-> g.exc, cause |-> "", reported |-> <<>>]

----------------------------------------------------------------------------
(* Operations                                                              *)

\* A fault is drawn only for a call in which the step it names is executed.
FaultsFor(a) ==
    IF /\ Validate(a.protocol, a.session, a.servername, a.ip_list) = NoError
       /\ a.protocol.value \in {ProtocolEnum.TCP, ProtocolEnum.UDP}
    THEN {fault \in Faults : fault.step = "mkdir" => ~dirExists}
    ELSE {NoFault}

generate_vpn_cert(a, fault) ==
    LET v == Validate(a.protocol, a.session, a.servername, a.ip_list)
        g == Dispatch(a.servername, a.ip_list, a.cached_cert, a.protocol,
                      fault, dirExists, files)
        t == TryExcept(g)
    IN
    IF v # NoError
    THEN /\ last' = [op |-> "generate_vpn_cert", protocol |-> a.protocol,
                     session |-> a.session, servername |-> a.servername,
                     ip_list |-> a.ip_list, cached_cert |-> a.cached_cert,
                     fault |-> fault, check |-> v.check, generator |-> "none",
                     ret |-> PyNone, exc |-> v.exc, cause |-> "", reported |-> <<>>]
         /\ UNCHANGED <<conn, dirExists, files>>
    ELSE /\ conn' = RecordAttempt(conn, a.servername, a.protocol)
         /\ dirExists' = g.dirExists
         /\ files' = g.files
         /\ last' = [op |-> "generate_vpn_cert", protocol |-> a.protocol,
                     session |-> a.session, servername |-> a.servername,
                     ip_list |-> a.ip_list, cached_cert |-> a.cached_cert,
                     fault |-> fault, check |-> 0, generator |-> g.generator,
                     ret |-> t.ret, exc |-> t.exc, cause |-> t.cause,
                     reported |-> t.reported]

IsDir(filename) == filename = PROTON_XDG_CACHE_HOME

\* os.remove(filename): [exc, files]
os_remove_IgnoreMissing(filename, d, f) ==
    IF IsDir(filename)
    THEN [exc |-> IF d THEN "IsADirectoryError" ELSE "FileNotFoundError", files |-> f]
    ELSE IF ~f[filename].exists THEN [exc |-> "", files |-> f]
    ELSE [exc |-> "", files |-> [f EXCEPT ![filename] = Absent]]

os_remove(filename, d, f) ==
    IF IsDir(filename)
    THEN [exc |-> IF d THEN "IsADirectoryError" ELSE "FileNotFoundError", files |-> f]
    ELSE IF ~f[filename].exists THEN [exc |-> "FileNotFoundError", files |-> f]
    ELSE [exc |-> "", files |-> [f EXCEPT ![filename] = Absent]]

delete_cached_certificate(filename) ==
    LET r == os_remove(filename, dirExists, files) IN
    /\ files' = r.files
    /\ last' = [op |-> "delete_cached_certificate", protocol |-> PyNone, session |-> PyNone,
                servername |-> PyNone, ip_list |-> NoList, cached_cert |-> PyStr(filename),
                fault |-> NoFault, check |-> 0, generator |-> "none", ret |-> PyNone,
                exc |-> r.exc, cause |-> "", reported |-> <<>>]
    /\ UNCHANGED <<conn, dirExists>>

----------------------------------------------------------------------------
(* Specifications                                                          *)

\* A certificate left at a cache path by an earlier run of the program.
OldText ==
    Render([openvpn_protocol |-> PyStr(ProtocolEnum.UDP),
            serverlist |-> PyList(<<"5.6.7.8", "1.2.3.4">>),
            openvpn_ports |-> <<ports[ProtocolEnum.UDP]>>])

Init ==
    /\ conn = [lastServerName |-> PyNone, lastProtocol |-> PyNone]
    /\ dirExists \in BOOLEAN
    /\ files \in [Paths -> {Absent, FileWith(OldText)}]
    /\ \A p \in Paths : InCacheHome(p) /\ ~dirExists => ~files[p].exists
    /\ last = [op |-> "init", protocol |-> PyNone, session |-> PyNone,
               servername |-> PyNone, ip_list |-> NoList, cached_cert |-> PyNone,
               fault |-> NoFault, check |-> 0, generator |-> "none", ret |-> PyNone,
               exc |-> "", cause |-> "", reported |-> <<>>]

ValidArgs == {a \in AllArgs : Validate(a.protocol, a.session, a.servername, a.ip_list) = NoError}

\* One well-formed call and the calls that differ from it in one argument
\* that fails one validation check.
GoodCall ==
    [protocol |-> PyStr(ProtocolEnum.TCP), session |-> [type |-> "Session", value |-> "session"],
     servername |-> PyStr("PT#1"), ip_list |-> PyList(<<"1.2.3.4", "5.6.7.8">>),
     cached_cert |-> PyStr(CACHED_OPENVPN_CERTIFICATE)]
OneDefectArgs ==
    {[GoodCall EXCEPT !.protocol = PyBytes("tcp")],
     [GoodCall EXCEPT !.session = PyNone],
     [GoodCall EXCEPT !.servername = PyBytes("PT#1")],
     [GoodCall EXCEPT !.ip_list = PyTuple(<<"1.2.3.4">>)],
     [GoodCall EXCEPT !.ip_list = PyTuple(<<>>)],
     [GoodCall EXCEPT !.ip_list = PyList(<<>>)]}

SeqArgs == ValidArgs \cup OneDefectArgs

DeleteArgs == Paths \cup {PROTON_XDG_CACHE_HOME}

\* Any sequence of calls, each well-formed or with one defect.
Next ==
    \/ \E a \in SeqArgs : \E fault \in FaultsFor(a) : generate_vpn_cert(a, fault)
    \/ \E filename \in DeleteArgs : delete_cached_certificate(filename)

Spec == Init /\ [][Next]_vars

\* One call with every combination of arguments, from every initial state.
NextOneCall ==
    /\ last.op = "init"
    /\ \E a \in AllArgs : \E fault \in FaultsFor(a) : generate_vpn_cert(a, fault)

SpecOneCall == Init /\ [][NextOneCall]_vars

----------------------------------------------------------------------------
(* Properties                                                              *)

IsGenerate(c) == c.op = "generate_vpn_cert"
IsDelete(c) == c.op = "delete_cached_certificate"

\* The arguments of call c pass the five checks.
PassesValidation(c) ==
    /\ c.protocol.type = "str"
    /\ c.session.type = "Session"
    /\ c.servername.type = "str"
    /\ c.ip_list.type = "list"
    /\ Len(c.ip_list.value) >= 1

IsOpenvpnCall(c) ==
    /\ IsGenerate(c)
    /\ PassesValidation(c)
    /\ c.protocol.value \in {"tcp", "udp"}

\* C1: a TCP/UDP generation with well-formed arguments returns the cache
\* path it was given exactly when none of its steps fails, and the file at
\* that path then holds the template rendered with the protocol, the
\* caller's ip_list in order and the one-element list of that protocol's port.
C1_OpenvpnWritesRenderedCert ==
    IsOpenvpnCall(last) =>
        /\ last.fault = NoFault <=> last.ret = last.cached_cert
        /\ last.fault = NoFault =>
             /\ last.exc = ""
             /\ files[last.cached_cert.value] =
                  [exists |-> TRUE,
                   text |-> [kind |-> "rendered",
                             openvpn_protocol |-> last.protocol.value,
                             serverlist |-> last.ip_list.value,
                             openvpn_ports |->
                                 << IF last.protocol.value = "tcp"
                                    THEN ProtocolPortEnum.TCP
                                    ELSE ProtocolPortEnum.UDP >>]]

C1_Witness ==
    /\ IsOpenvpnCall(last)
    /\ last.protocol.value = "tcp"
    /\ last.ip_list.value = <<"1.2.3.4", "5.6.7.8">>
    /\ last.ret = PyStr("/tmp/cert.ovpn")
    /\ files["/tmp/cert.ovpn"].text.serverlist = <<"1.2.3.4", "5.6.7.8">>
    /\ files["/tmp/cert.ovpn"].text.openvpn_ports = <<ProtocolPortEnum.TCP>>

\* C2: a generation with well-formed arguments for IKEV2 or WIREGUARD returns
\* True and leaves the cache directory and every file as they were.
C2_StubsReturnTrueWithoutIO ==
    [][ (/\ IsGenerate(last')
         /\ PassesValidation(last')
         /\ last'.protocol.value \in {"ikev2", "wireguard"})
        => /\ last'.ret = PyTrue
           /\ last'.exc = ""
           /\ last'.reported = <<>>
           /\ dirExists' = dirExists
           /\ files' = files ]_vars

C2_Witness ==
    /\ IsGenerate(last)
    /\ last.protocol.value = "wireguard"
    /\ last.ret = PyTrue
    /\ ~dirExists
    /\ \A p \in Paths : ~files[p].exists

\* The checks the arguments of call c fail, each judged on its own.
Defects(c) ==
    {i \in 1..5 :
        \/ i = 1 /\ c.protocol.type # "str"
        \/ i = 2 /\ c.session.type # "Session"
        \/ i = 3 /\ c.servername.type # "str"
        \/ i = 4 /\ c.ip_list.type # "list"
        \/ i = 5 /\ Len(c.ip_list.value) = 0}

\* C3: the error of a call is the one of the first check its arguments fail,
\* in the order protocol, session, servername, ip_list type, ip_list
\* non-empty: TypeError for checks 1-4, ValueError for check 5; an empty list
\* yields ValueError exactly when the other three arguments are well-typed.
C3_FirstFailingCheckDecides ==
    IsGenerate(last) =>
        LET D == Defects(last) IN
        /\ D = {} => last.check = 0 /\ last.exc \notin {"TypeError", "ValueError"}
        /\ D # {} =>
             LET first == CHOOSE i \in D : \A j \in D : i <= j IN
             /\ last.check = first
             /\ last.exc = IF first <= 4 THEN "TypeError" ELSE "ValueError"
        /\ last.ip_list = PyList(<<>>) =>
             (last.exc = "ValueError" <=>
                /\ last.protocol.type = "str"
                /\ last.session.type = "Session"
                /\ last.servername.type = "str")

C3_Witness ==
    /\ IsGenerate(last)
    /\ Defects(last) = {2, 4, 5}
    /\ last.exc = "TypeError"
    /\ last.check = 2

\* C4: a generation with well-formed arguments whose protocol is a string
\* that is no key of the dispatch table raises IllegalVPNProtocol wrapping
\* the KeyError; no generator runs and the filesystem is unchanged.
C4_UnknownProtocolIsIllegal ==
    [][ (/\ IsGenerate(last')
         /\ PassesValidation(last')
         /\ last'.protocol.value \notin {"tcp", "udp", "ikev2", "wireguard"})
        => /\ last'.exc = "IllegalVPNProtocol"
           /\ last'.cause = "KeyError"
           /\ last'.generator = "none"
           /\ last'.reported = <<>>
           /\ dirExists' = dirExists
           /\ files' = files ]_vars

C4_Witness ==
    /\ IsGenerate(last)
    /\ last.protocol = PyStr("sstp")
    /\ last.exc = "IllegalVPNProtocol"
    /\ \E p \in Paths : files[p].exists

\* C5: a generation that passes validation sets ConnectionState to its
\* servername and protocol whatever the dispatch outcome; a generation that
\* fails validation leaves ConnectionState and the filesystem unchanged; a
\* deletion leaves ConnectionState unchanged.
C5_StateRecordsLastValidatedCall ==
    [][ /\ (IsGenerate(last') /\ PassesValidation(last'))
            => conn' = [lastServerName |-> last'.servername,
                        lastProtocol |-> last'.protocol]
        /\ (IsGenerate(last') /\ ~PassesValidation(last'))
            => conn' = conn /\ files' = files /\ dirExists' = dirExists
        /\ IsDelete(last') => conn' = conn ]_vars

C5_Witness ==
    /\ IsGenerate(last)
    /\ last.exc = "IllegalVPNProtocol"
    /\ conn = [lastServerName |-> PyStr("PT#2"), lastProtocol |-> PyStr("sstp")]

\* C6: when get_template raises TemplateNotFound, the caller of
\* generate_vpn_cert sees TemplateNotFound: not IllegalVPNProtocol, nothing
\* sent to capture_exception, not swallowed.
C6_TemplateNotFoundReachesCaller ==
    (IsGenerate(last) /\ last.fault = [step |-> "get_template", exc |-> "TemplateNotFound"])
        => /\ last.exc = "TemplateNotFound"
           /\ last.reported = <<>>

C6_Witness ==
    /\ IsGenerate(last)
    /\ last.fault = [step |-> "get_template", exc |-> "TemplateNotFound"]
    /\ last.generator = "generate_openvpn_cert"
    /\ last.exc = "TemplateNotFound"

\* C7: a failure of the generator that is neither a KeyError nor
\* TemplateNotFound is sent to capture_exception exactly once, and
\* generate_vpn_cert returns None and raises nothing.
C7_OtherFailuresCapturedAndSwallowed ==
    (/\ IsGenerate(last)
     /\ last.fault # NoFault
     /\ last.fault.exc \notin {"KeyError", "TemplateNotFound"})
        => /\ last.reported = <<last.fault.exc>>
           /\ last.ret = PyNone
           /\ last.exc = ""

C7_Witness ==
    /\ IsGenerate(last)
    /\ last.fault = [step |-> "render", exc |-> "UndefinedError"]
    /\ last.reported = <<"UndefinedError">>

IOFaultSteps == {"mkdir", "open", "write"}

\* C8 as stated: an I/O failure in creating the cache directory, opening the
\* cache path or writing reaches the caller of generate_vpn_cert as an error.
C8_IOFailureReachesCaller ==
    (IsGenerate(last) /\ last.fault.step \in IOFaultSteps) => last.exc # ""

\* C8 amended: such an I/O failure is not retried (the step that failed has
\* had no effect afterwards) and leaves generate_openvpn_cert as an OSError;
\* generate_vpn_cert sends it to capture_exception once, returns None and
\* raises nothing.
C8_IOFailureNotRetriedThenSwallowed ==
    [][ (IsGenerate(last') /\ last'.fault.step \in IOFaultSteps)
        => /\ last'.generator = "generate_openvpn_cert"
           /\ last'.cause = "OSError"
           /\ last'.reported = <<"OSError">>
           /\ last'.exc = ""
           /\ last'.ret = PyNone
           /\ last'.fault.step = "mkdir" => ~dirExists' /\ files' = files
           /\ last'.fault.step = "open" => files' = files
           /\ last'.fault.step = "write" =>
                files'[last'.cached_cert.value].text.kind # "rendered" ]_vars

C8_Witness ==
    /\ IsGenerate(last)
    /\ last.fault.step = "mkdir"
    /\ last.reported = <<"OSError">>
    /\ last.ret = PyNone
    /\ ~dirExists

\* C9: deleting an existing file removes it and nothing else; deleting a
\* path that does not exist raises FileNotFoundError and changes nothing; a
\* file stops existing only by a successful deletion of its path.
C9_FilesRemovedOnlyByDeletion ==
    [][ /\ (IsDelete(last') /\ last'.cached_cert.value \in Paths) =>
              LET p == last'.cached_cert.value IN
              IF files[p].exists
              THEN /\ last'.exc = ""
                   /\ ~files'[p].exists
                   /\ \A q \in Paths \ {p} : files'[q] = files[q]
              ELSE /\ last'.exc = "FileNotFoundError"
                   /\ files' = files
        /\ \A p \in Paths :
              (files[p].exists /\ ~files'[p].exists) =>
                 /\ IsDelete(last')
                 /\ last'.cached_cert.value = p
                 /\ last'.exc = "" ]_vars

C9_Witness ==
    /\ IsDelete(last)
    /\ last.exc = ""
    /\ ~files[last.cached_cert.value].exists
    /\ conn.lastProtocol = PyStr("udp")

\* C10 as stated: rendering is complete before the cache path is opened, so
\* a generation whose template lookup or rendering fails leaves a file that
\* is already at a cache path with its previous content.
C10_FailedRenderKeepsOldCert ==
    [][ (IsGenerate(last') /\ last'.fault.step \in {"get_template", "render"})
        => \A p \in Paths : files[p].exists => files'[p] = files[p] ]_vars

====
